---- MODULE Spec2Model ----
(***************************************************************************)
(* A model of util/panel.py: the Panel wrapper around curses subwindows,   *)
(* its redraw protocol under the process-wide CURSES_LOCK, the geometry     *)
(* setters, and the pause buffer.                                           *)
(*                                                                          *)
(* Threads run Panel methods.  redraw is not atomic: each thread has a      *)
(* stack of redraw frames (the draw callback may call redraw again, which   *)
(* is why the lock is an RLock), and a frame advances one source statement  *)
(* at a time, so that other threads' setters, resizes and redraws           *)
(* interleave with it as the interpreter allows.                            *)
(***************************************************************************)
EXTENDS Integers, Sequences, FiniteSets, TLC

\* ------------------------------------------------------------- bounds
\* Deepest nesting of redraw calls on one thread (redraw -> draw -> redraw).
MaxDepth == 2
\* Largest number of rows / columns the terminal takes.
MaxRows == 2
MaxCols == 2
\* Latest reading of the clock.
MaxTime == 2
\* the longest text and the longest line asked for
MaxLen == 3
\* the most pieces (tags, characters) a marked-up message is made of
MaxPieces == 5
\* the most rows of a panel a scroll bar is drawn in
MaxTrack == 4
\* the longest list a scroll bar shows the position in
MaxSize == 4

\* The sentinel of height and width: use all the available space.
Unlimited == -1

Max(a, b) == IF a >= b THEN a ELSE b
Min(a, b) == IF a <= b THEN a ELSE b

\* ------------------------------------------------------------- state
VARIABLES
  term,        \* the size every parent window reports: [h, w]
  visible,     \* Panel.visible
  top,         \* Panel.top
  left,        \* Panel.left
  height,      \* Panel.height
  width,       \* Panel.width
  parent,      \* Panel.parent (the identity of the parent window)
  win,         \* Panel.win: the subwindow, or NoWin for None
  maxY,        \* Panel.maxY
  maxX,        \* Panel.maxX
  lockOwner,   \* CURSES_LOCK: the owning thread, 0 when free
  lockCount,   \* CURSES_LOCK: the owner's recursion level
  stack,       \* per thread: the redraw calls in progress, innermost last
  quiet,       \* per panel: a redraw called from top-level code has returned,
               \* and the panel and the terminal are as that call left them
  paused,      \* Panel.paused
  pauseAttr,   \* Panel.pauseAttr: the tracked attribute names
  pauseBuffer, \* Panel.pauseBuffer: attribute name -> the copy taken
  pauseTime,   \* Panel.pauseTime
  attrs,       \* the panel's own attributes (self.__dict__)
  cell,        \* the mutable objects attribute values hold: name -> content
  now,         \* time.time()
  frozen,      \* per panel and attribute: what it looked like at the pause
  result,      \* how the last setPaused call that ended did so: "True",
               \* "False", "raised" (its redraw raised), "none" before any
  asked,       \* the last drawing operation called, with its arguments
  written,     \* the calls the last drawing operation made on self.win
  drawOut,     \* how the last drawing operation ended: Ended("ok"), or
               \* the exception that left it; Ended("none") before any
  preferred    \* what the last getPreferredSize call returned: <<height,
               \* width>>, NoSize before any

geomVars == <<term, visible, top, left, height, width, parent, win, maxY, maxX>>
lockVars == <<lockOwner, lockCount>>
pauseFields == <<paused, pauseAttr, pauseBuffer, pauseTime, attrs, cell, now, frozen>>
pauseVars == <<pauseFields, result>>
drawVars == <<asked, written, drawOut, preferred>>
vars == <<term, visible, top, left, height, width, parent, win, maxY, maxX,
          lockOwner, lockCount, stack, quiet,
          paused, pauseAttr, pauseBuffer, pauseTime, attrs, cell, now, frozen,
          result, asked, written, drawOut, preferred>>

\* self.win = None
NoWin == [ok |-> FALSE, h |-> 0, w |-> 0, y |-> 0]

\* A subwindow of h rows and w columns whose first row is row y of its parent.
Window(h, w, y) == [ok |-> TRUE, h |-> h, w |-> w, y |-> y]

\* ------------------------------------------------------- preferred size
\* Panel.getPreferredSize: the parent's space below/right of the panel's
\* offset, floored at zero, clamped to the configured maximum unless that is -1.
PrefHeightNoFloor(p) ==
  LET avail == term.h - top[p]
  IN  IF height[p] # Unlimited THEN Min(avail, height[p]) ELSE avail

PrefHeight(p) ==
  LET avail == Max(0, term.h - top[p])
  IN  IF height[p] # Unlimited THEN Min(avail, height[p]) ELSE avail

PrefWidth(p) ==
  LET avail == Max(0, term.w - left[p])
  IN  IF width[p] # Unlimited THEN Min(avail, width[p]) ELSE avail

\* No getPreferredSize call has returned yet.
NoSize == <<-1, -1>>

\* Panel.getPreferredSize(): a tuple of (height, width).
GetPreferredSize(t, p) ==
  /\ preferred' = <<PrefHeight(p), PrefWidth(p)>>
  /\ UNCHANGED <<geomVars, lockVars, stack, quiet, pauseVars, asked, written,
                 drawOut>>

\* Panel._resetSubwindow, the decision: no window yet, room to grow
\* vertically, displaced above its configured top, or larger than preferred.
NeedsRecreate(p) ==
  \/ ~win[p].ok
  \/ win[p].h < PrefHeight(p)
  \/ top[p] > win[p].y
  \/ win[p].w > PrefWidth(p)
  \/ win[p].h > PrefHeight(p)

\* parent.subwin(h, w, top, left): curses makes no window without columns
\* (it returns NULL, which the binding raises as curses.error).
SubwinFails(h, w) == h <= 0 \/ w <= 0

\* redraw's comparison of the window's size with the size last drawn at.
DimsChanged(p) == win[p].h # maxY[p] \/ win[p].w # maxX[p]

\* What the terminal layer does to a subwindow when the terminal is resized
\* to nh rows and nw columns and it adjusts the window: the window is moved up
\* when its first row fell off the screen (and never moved back), cut to the
\* rows that are left, and its width follows the terminal's.
Adjusted(w, p, nh, nw) ==
  LET y == Min(w.y, nh - 1)
  IN  Window(Min(w.h, nh - y), Max(1, nw - left[p]), y)

\* ------------------------------------------------------------ the lock
\* The recursion level thread t holds CURSES_LOCK at.
Held(t) == IF lockOwner = t THEN lockCount ELSE 0

\* (mutant) the lock excludes nobody.
CanAcquireAlways(t) == TRUE

\* RLock.acquire succeeds when the lock is free or already owned by t.
CanAcquire(t) == lockOwner = 0 \/ lockOwner = t

\* ---------------------------------------------------------- call frames
Idle(t) == stack[t] = <<>>
Top(t) == stack[t][Len(stack[t])]
At(t, pc) == IF Idle(t) THEN FALSE ELSE Top(t).pc = pc

\* Whether, as panel p stands, its parent's available space is smaller than
\* the subwindow size last drawn at, with rows left for the panel.
Shrunk(p) ==
  /\ win[p].ok
  /\ PrefHeight(p) > 0
  /\ (PrefHeight(p) < maxY[p] \/ PrefWidth(p) < maxX[p])

\* A frame of redraw(forceRedraw, block) on panel p.  forceRedraw, block and
\* isNewWindow are the method's locals; out is how the call ends ("" while it
\* runs normally, "raised" while an exception propagates); the rest records
\* how the call began, for the properties below.
NewFrame(t, p, force, block) ==
  [p |-> p, pc |-> "pref", forceRedraw |-> force, block |-> block,
   isNewWindow |-> FALSE,
   out |-> "",
   locked |-> FALSE,        \* the call has acquired the lock
   force0 |-> force,        \* the caller's forceRedraw
   changed |-> FALSE,       \* the dimensions differed from maxY, maxX
   shrunk0 |-> Shrunk(p),   \* the space had shrunk when the call began
   held0 |-> Held(t),       \* the thread's hold on the lock at the call
   forPause |-> FALSE]      \* the call is the redraw(True) of setPaused

\* The thread's innermost frame becomes f.
Goto(t, f) == stack' = [stack EXCEPT ![t] = [@ EXCEPT ![Len(@)] = f]]

\* A method is called from top-level code or from inside a draw callback.
CanCall(t) ==
  IF Idle(t) THEN TRUE ELSE Len(stack[t]) < MaxDepth /\ Top(t).pc = "indraw"

\* ------------------------------------------------------------- redraw
\* (mutant) redraw does not look at the panel's visibility.
RedrawIgnoresVisible(t, p, force, block) ==
  /\ CanCall(t)
  /\ stack' = [stack EXCEPT ![t] = Append(@, NewFrame(t, p, force, block))]
  /\ quiet' = quiet
  /\ UNCHANGED <<geomVars, lockVars, pauseVars, drawVars>>

\* A call of redraw(forceRedraw, block) on panel p by thread t, up to
\*   if not self.isVisible(): return
\* A call on a panel that is not visible returns at once and leaves no frame.
Redraw(t, p, force, block) ==
  /\ CanCall(t)
  /\ IF visible[p]
     THEN /\ stack' = [stack EXCEPT ![t] = Append(@, NewFrame(t, p, force, block))]
          /\ quiet' = quiet
     ELSE /\ stack' = stack
          /\ quiet' = [quiet EXCEPT ![p] = IF Idle(t) THEN TRUE ELSE @]
  /\ UNCHANGED <<geomVars, lockVars, pauseVars, drawVars>>

\* newHeight, newWidth = self.getPreferredSize()
\* if newHeight == 0: self.win = None; return
RedrawPreferred(t) ==
  /\ At(t, "pref")
  /\ LET p == Top(t).p
     IN  IF PrefHeight(p) = 0
         THEN /\ win' = [win EXCEPT ![p] = NoWin]
              /\ Goto(t, [Top(t) EXCEPT !.pc = "ret", !.out = "zero"])
         ELSE /\ win' = win
              /\ Goto(t, [Top(t) EXCEPT !.pc = "reset"])
  /\ UNCHANGED <<term, visible, top, left, height, width, parent, maxY, maxX,
                 lockVars, quiet, pauseVars, drawVars>>

\* isNewWindow = self._resetSubwindow()
RedrawReset(t) ==
  /\ At(t, "reset")
  /\ LET p == Top(t).p
         newHeight == PrefHeight(p)
         newWidth == PrefWidth(p)
     IN  IF newHeight = 0
         THEN \* subwindow would be outside its parent: return False
              /\ win' = win
              /\ Goto(t, [Top(t) EXCEPT !.pc = "dims", !.isNewWindow = FALSE])
         ELSE IF ~NeedsRecreate(p)
         THEN /\ win' = win
              /\ Goto(t, [Top(t) EXCEPT !.pc = "dims", !.isNewWindow = FALSE])
         ELSE IF SubwinFails(newHeight, newWidth)
         THEN \* curses.error leaves redraw before the lock is touched
              /\ win' = win
              /\ Goto(t, [Top(t) EXCEPT !.pc = "ret", !.out = "raised"])
         ELSE /\ win' = [win EXCEPT ![p] = Window(newHeight, newWidth, top[p])]
              /\ Goto(t, [Top(t) EXCEPT !.pc = "dims", !.isNewWindow = TRUE])
  /\ UNCHANGED <<term, visible, top, left, height, width, parent, maxY, maxX,
                 lockVars, quiet, pauseVars, drawVars>>

\* subwinMaxY, subwinMaxX = self.win.getmaxyx()
\* if isNewWindow or subwinMaxY != self.maxY or subwinMaxX != self.maxX:
\*   forceRedraw = True
\* self.maxY, self.maxX = subwinMaxY, subwinMaxX
\* (mutant) the dimensions read from the handle are not stored.
RedrawDimsNotStored(t) ==
  /\ At(t, "dims")
  /\ LET p == Top(t).p
     IN  IF ~win[p].ok
         THEN Goto(t, [Top(t) EXCEPT !.pc = "ret", !.out = "raised"])
         ELSE Goto(t, [Top(t) EXCEPT
                     !.pc = "acquire",
                     !.changed = DimsChanged(p),
                     !.forceRedraw = @ \/ Top(t).isNewWindow \/ DimsChanged(p)])
  /\ UNCHANGED <<geomVars, lockVars, quiet, pauseVars, drawVars>>

RedrawDims(t) ==
  /\ At(t, "dims")
  /\ LET p == Top(t).p
     IN  IF ~win[p].ok
         THEN \* None has no getmaxyx: AttributeError
              /\ Goto(t, [Top(t) EXCEPT !.pc = "ret", !.out = "raised"])
              /\ UNCHANGED <<maxY, maxX>>
         ELSE /\ Goto(t, [Top(t) EXCEPT
                     !.pc = "acquire",
                     !.changed = DimsChanged(p),
                     !.forceRedraw = @ \/ Top(t).isNewWindow \/ DimsChanged(p)])
              /\ maxY' = [maxY EXCEPT ![p] = win[p].h]
              /\ maxX' = [maxX EXCEPT ![p] = win[p].w]
  /\ UNCHANGED <<term, visible, top, left, height, width, parent, win,
                 lockVars, quiet, pauseVars, drawVars>>

\* The locals of a frame that the call does not read again: forceRedraw is
\* read for the last time at "if forceRedraw:" (the frame's next statement
\* stands for the outcome), isNewWindow at line 389; the record of how the
\* call began is kept up to the erase.
Forgotten(f) ==
  [f EXCEPT !.forceRedraw = FALSE, !.isNewWindow = FALSE,
            !.force0 = FALSE, !.changed = FALSE, !.shrunk0 = FALSE]

\* The frame once the lock is held.
Locked(f) ==
  IF f.forceRedraw
  THEN [f EXCEPT !.pc = "erase", !.locked = TRUE]
  ELSE [Forgotten(f) EXCEPT !.pc = "refresh", !.locked = TRUE]

\* (mutant) a blocking acquire gives up like a non-blocking one.
RedrawAcquireGivesUp(t) ==
  /\ At(t, "acquire")
  /\ IF CanAcquire(t)
     THEN /\ lockOwner' = t
          /\ lockCount' = lockCount + 1
          /\ Goto(t, Locked(Top(t)))
     ELSE /\ Goto(t, [Top(t) EXCEPT !.pc = "ret", !.out = "dropped"])
          /\ UNCHANGED lockVars
  /\ UNCHANGED <<geomVars, quiet, pauseVars, drawVars>>

\* (mutant) the result of acquire is not looked at: the call goes on without
\* the lock when another thread owns it.
RedrawAcquireUnchecked(t) ==
  /\ At(t, "acquire")
  /\ IF CanAcquire(t)
     THEN /\ lockOwner' = t
          /\ lockCount' = lockCount + 1
     ELSE UNCHANGED lockVars
  /\ Goto(t, Locked(Top(t)))
  /\ UNCHANGED <<geomVars, quiet, pauseVars, drawVars>>

\* if not CURSES_LOCK.acquire(block): return
\* A blocking acquire waits (the action is not enabled) while another thread
\* owns the lock; a non-blocking one returns False at once.
RedrawAcquire(t) ==
  /\ At(t, "acquire")
  /\ IF CanAcquire(t)
     THEN /\ lockOwner' = t
          /\ lockCount' = lockCount + 1
          /\ Goto(t, Locked(Top(t)))
     ELSE /\ ~Top(t).block
          /\ Goto(t, [Top(t) EXCEPT !.pc = "ret", !.out = "dropped"])
          /\ UNCHANGED lockVars
  /\ UNCHANGED <<geomVars, quiet, pauseVars, drawVars>>

\* self.win.erase(), and on to the call of self.draw(self.maxX - 1, self.maxY);
\* erase raises AttributeError on None
RedrawErase(t) ==
  /\ At(t, "erase")
  /\ IF win[Top(t).p].ok
     THEN Goto(t, [Forgotten(Top(t)) EXCEPT !.pc = "indraw"])
     ELSE Goto(t, [Forgotten(Top(t)) EXCEPT !.pc = "release",
                                           !.out = "raised"])
  /\ UNCHANGED <<geomVars, lockVars, quiet, pauseVars, drawVars>>

\* the draw callback returns
DrawReturns(t) ==
  /\ At(t, "indraw")
  /\ Goto(t, [Top(t) EXCEPT !.pc = "refresh"])
  /\ UNCHANGED <<geomVars, lockVars, quiet, pauseVars, drawVars>>

\* the draw callback raises
DrawRaises(t) ==
  /\ At(t, "indraw")
  /\ Goto(t, [Top(t) EXCEPT !.pc = "release", !.out = "raised"])
  /\ UNCHANGED <<geomVars, lockVars, quiet, pauseVars, drawVars>>

\* self.win.refresh(): it raises on None, and curses may report an error
RedrawRefresh(t, fails) ==
  /\ At(t, "refresh")
  /\ IF win[Top(t).p].ok /\ ~fails
     THEN Goto(t, [Top(t) EXCEPT !.pc = "release"])
     ELSE Goto(t, [Top(t) EXCEPT !.pc = "release", !.out = "raised"])
  /\ UNCHANGED <<geomVars, lockVars, quiet, pauseVars, drawVars>>

\* (mutant) the release is not in a finally clause: an exception skips it.
RedrawReleaseNoFinally(t) ==
  /\ At(t, "release")
  /\ lockCount' = IF Top(t).out = "raised" THEN lockCount ELSE lockCount - 1
  /\ lockOwner' = IF Top(t).out # "raised" /\ lockCount = 1 THEN 0 ELSE lockOwner
  /\ Goto(t, [Top(t) EXCEPT !.pc = "ret",
                            !.out = IF @ = "" THEN "done" ELSE @])
  /\ UNCHANGED <<geomVars, quiet, pauseVars, drawVars>>

\* finally: CURSES_LOCK.release()
RedrawRelease(t) ==
  /\ At(t, "release")
  /\ lockCount' = lockCount - 1
  /\ lockOwner' = IF lockCount = 1 THEN 0 ELSE lockOwner
  /\ Goto(t, [Top(t) EXCEPT !.pc = "ret",
                            !.out = IF @ = "" THEN "done" ELSE @])
  /\ UNCHANGED <<geomVars, quiet, pauseVars, drawVars>>

\* redraw returns (or its exception reaches the caller; inside a draw
\* callback the caller is that callback, which returns or raises in its turn)
RedrawReturn(t) ==
  /\ At(t, "ret")
  /\ stack' = [stack EXCEPT ![t] = SubSeq(@, 1, Len(@) - 1)]
  /\ quiet' = [quiet EXCEPT ![Top(t).p] = IF Len(stack[t]) = 1 THEN TRUE ELSE @]
  /\ result' = IF ~Top(t).forPause THEN result
               ELSE IF Top(t).out = "raised" THEN "raised" ELSE "True"
  /\ UNCHANGED <<geomVars, lockVars, pauseFields, drawVars>>

\* ------------------------------------------------------------ setters
\* Each setter: if the value differs, store it and set self.win = None.
\* The setters are called by code that is not inside a redraw of its own.
SetParent(t, p, v) ==
  /\ Idle(t)
  /\ IF parent[p] # v
     THEN /\ parent' = [parent EXCEPT ![p] = v]
          /\ win' = [win EXCEPT ![p] = NoWin]
          /\ quiet' = [quiet EXCEPT ![p] = FALSE]
     ELSE UNCHANGED <<parent, win, quiet>>
  /\ UNCHANGED <<term, visible, top, left, height, width, maxY, maxX,
                 lockVars, stack, pauseVars, drawVars>>

\* (mutant) setTop stores the value and keeps the handle.
SetTopKeepsHandle(t, p, v) ==
  /\ Idle(t)
  /\ top' = [top EXCEPT ![p] = v]
  /\ quiet' = [quiet EXCEPT ![p] = IF top[p] # v THEN FALSE ELSE @]
  /\ UNCHANGED <<term, visible, left, height, width, parent, win, maxY, maxX,
                 lockVars, stack, pauseVars, drawVars>>

SetTop(t, p, v) ==
  /\ Idle(t)
  /\ IF top[p] # v
     THEN /\ top' = [top EXCEPT ![p] = v]
          /\ win' = [win EXCEPT ![p] = NoWin]
          /\ quiet' = [quiet EXCEPT ![p] = FALSE]
     ELSE UNCHANGED <<top, win, quiet>>
  /\ UNCHANGED <<term, visible, left, height, width, parent, maxY, maxX,
                 lockVars, stack, pauseVars, drawVars>>

SetLeft(t, p, v) ==
  /\ Idle(t)
  /\ IF left[p] # v
     THEN /\ left' = [left EXCEPT ![p] = v]
          /\ win' = [win EXCEPT ![p] = NoWin]
          /\ quiet' = [quiet EXCEPT ![p] = FALSE]
     ELSE UNCHANGED <<left, win, quiet>>
  /\ UNCHANGED <<term, visible, top, height, width, parent, maxY, maxX,
                 lockVars, stack, pauseVars, drawVars>>

SetHeight(t, p, v) ==
  /\ Idle(t)
  /\ IF height[p] # v
     THEN /\ height' = [height EXCEPT ![p] = v]
          /\ win' = [win EXCEPT ![p] = NoWin]
          /\ quiet' = [quiet EXCEPT ![p] = FALSE]
     ELSE UNCHANGED <<height, win, quiet>>
  /\ UNCHANGED <<term, visible, top, left, width, parent, maxY, maxX,
                 lockVars, stack, pauseVars, drawVars>>

SetWidth(t, p, v) ==
  /\ Idle(t)
  /\ IF width[p] # v
     THEN /\ width' = [width EXCEPT ![p] = v]
          /\ win' = [win EXCEPT ![p] = NoWin]
          /\ quiet' = [quiet EXCEPT ![p] = FALSE]
     ELSE UNCHANGED <<width, win, quiet>>
  /\ UNCHANGED <<term, visible, top, left, height, parent, maxY, maxX,
                 lockVars, stack, pauseVars, drawVars>>

\* self.visible = isVisible
SetVisible(t, p, v) ==
  /\ Idle(t)
  /\ visible' = [visible EXCEPT ![p] = v]
  /\ quiet' = [quiet EXCEPT ![p] = IF visible[p] # v THEN FALSE ELSE @]
  /\ UNCHANGED <<term, top, left, height, width, parent, win, maxY, maxX,
                 lockVars, stack, pauseVars, drawVars>>

\* ------------------------------------------------------- the terminal
\* The terminal is resized to nh rows and nw columns, which every parent's
\* getmaxyx() reports from then on.  The terminal layer either leaves the
\* subwindows as they are or adjusts them (adjust).  The resize is picked up
\* by a thread that is not inside a Panel method.
Resize(t, nh, nw, adjust) ==
  /\ Idle(t)
  /\ <<nh, nw>> # <<term.h, term.w>>
  /\ term' = [h |-> nh, w |-> nw]
  /\ win' = [p \in DOMAIN win |->
               IF win[p].ok /\ adjust THEN Adjusted(win[p], p, nh, nw) ELSE win[p]]
  /\ quiet' = [p \in DOMAIN quiet |-> FALSE]
  /\ UNCHANGED <<visible, top, left, height, width, parent, maxY, maxX,
                 lockVars, stack, pauseVars, drawVars>>

\* -------------------------------------------------------- pause buffer
\* An attribute value is None, an immutable number, or a list that holds one
\* mutable object, which is referred to by its name in cell.  A value of the
\* model is the top level of the Python value.
NoneValue == [kind |-> "none", x |-> 0]
IntValue(n) == [kind |-> "int", x |-> n]
ListValue(c) == [kind |-> "list", x |-> c]

\* A key the pauseBuffer dict does not hold.
Missing == [kind |-> "missing", x |-> 0]

\* What a reader of value v sees: for a list, the content of the object in it.
Seen(v) == IF v.kind = "list" THEN [kind |-> "listof", x |-> cell[v.x]] ELSE v

\* copy.copy(v): a new top-level object with the same elements.  The copy of a
\* list is another list that holds the same mutable object.
ShallowCopy(v) == [kind |-> v.kind, x |-> v.x]

\* Panel.copyAttr: copy.copy(self.__dict__.get(attr))
CopyAttr(p, a) == ShallowCopy(attrs[p][a])

\* Panel.getAttr
GetAttr(p, a) ==
  IF a \notin pauseAttr[p] THEN NoneValue
  ELSE IF paused[p] THEN pauseBuffer[p][a]
  ELSE attrs[p][a]

\* Panel.setPauseAttr: track attr, and buffer a copy of its value.
SetPauseAttr(t, p, a) ==
  /\ Idle(t)
  /\ pauseAttr' = [pauseAttr EXCEPT ![p] = @ \cup {a}]
  /\ pauseBuffer' = [pauseBuffer EXCEPT ![p][a] = CopyAttr(p, a)]
  /\ UNCHANGED <<geomVars, lockVars, stack, quiet, paused, pauseTime, attrs,
                 cell, now, frozen, result, drawVars>>

\* self.<attr> = v, by the panel's own code (the docstring's self.myVar = 7)
SetAttr(t, p, a, v) ==
  /\ Idle(t)
  /\ attrs[p][a] # v
  /\ attrs' = [attrs EXCEPT ![p][a] = v]
  /\ UNCHANGED <<geomVars, lockVars, stack, quiet, paused, pauseAttr,
                 pauseBuffer, pauseTime, cell, now, frozen, result, drawVars>>

\* A change made in place to the mutable object c that attribute values hold.
MutateObject(t, c, n) ==
  /\ Idle(t)
  /\ cell[c] # n
  /\ \E p \in DOMAIN attrs : \E a \in DOMAIN attrs[p] : attrs[p][a] = ListValue(c)
  /\ cell' = [cell EXCEPT ![c] = n]
  /\ UNCHANGED <<geomVars, lockVars, stack, quiet, paused, pauseAttr,
                 pauseBuffer, pauseTime, attrs, now, frozen, result, drawVars>>

\* (mutant) setPaused does not copy the tracked attributes when pausing.
SetPausedNoCopy(t, p, isPause, suppressRedraw) ==
  /\ CanCall(t)
  /\ IF isPause # paused[p]
     THEN /\ pauseTime' = [pauseTime EXCEPT ![p] = IF isPause THEN now ELSE @]
          /\ paused' = [paused EXCEPT ![p] = isPause]
          /\ pauseBuffer' = pauseBuffer
          /\ frozen' = [frozen EXCEPT ![p] =
               [a \in DOMAIN @ |->
                  IF ~isPause THEN @[a]
                  ELSE IF a \in pauseAttr[p] THEN Seen(attrs[p][a]) ELSE Missing]]
          /\ stack' = [stack EXCEPT ![t] =
               IF ~suppressRedraw /\ visible[p]
               THEN Append(@, [NewFrame(t, p, TRUE, FALSE)
                                 EXCEPT !.forPause = TRUE])
               ELSE @]
          /\ quiet' = [quiet EXCEPT ![p] = FALSE]
          /\ result' = IF ~suppressRedraw /\ visible[p] THEN result ELSE "True"
     ELSE /\ result' = "False"
          /\ UNCHANGED <<pauseTime, paused, pauseBuffer, frozen, stack, quiet>>
  /\ UNCHANGED <<geomVars, lockVars, pauseAttr, attrs, cell, now, drawVars>>

\* Panel.setPaused(isPause, suppressRedraw), up to the first statement of the
\* redraw(True) it calls: a frame of that redraw is left when the panel is
\* visible, and setPaused returns True when that redraw returns.  Without a
\* frame the call ends here: return True, or return False when nothing changes.  frozen records what each tracked attribute looked like when the
\* panel was paused.
SetPaused(t, p, isPause, suppressRedraw) ==
  /\ CanCall(t)
  /\ IF isPause # paused[p]
     THEN /\ pauseTime' = [pauseTime EXCEPT ![p] = IF isPause THEN now ELSE @]
          /\ paused' = [paused EXCEPT ![p] = isPause]
          /\ pauseBuffer' = [pauseBuffer EXCEPT ![p] =
               [a \in DOMAIN @ |->
                  IF isPause /\ a \in pauseAttr[p] THEN CopyAttr(p, a) ELSE @[a]]]
          /\ frozen' = [frozen EXCEPT ![p] =
               [a \in DOMAIN @ |->
                  IF ~isPause THEN @[a]
                  ELSE IF a \in pauseAttr[p] THEN Seen(attrs[p][a]) ELSE Missing]]
          /\ stack' = [stack EXCEPT ![t] =
               IF ~suppressRedraw /\ visible[p]
               THEN Append(@, [NewFrame(t, p, TRUE, FALSE)
                                 EXCEPT !.forPause = TRUE])
               ELSE @]
          /\ quiet' = [quiet EXCEPT ![p] = FALSE]
          /\ result' = IF ~suppressRedraw /\ visible[p] THEN result ELSE "True"
     ELSE /\ result' = "False"
          /\ UNCHANGED <<pauseTime, paused, pauseBuffer, frozen, stack, quiet>>
  /\ UNCHANGED <<geomVars, lockVars, pauseAttr, attrs, cell, now, drawVars>>

\* time passes
Tick ==
  /\ now < MaxTime
  /\ now' = now + 1
  /\ UNCHANGED <<geomVars, lockVars, stack, quiet, paused, pauseAttr,
                 pauseBuffer, pauseTime, attrs, cell, frozen, result, drawVars>>

\* -------------------------------------------------- drawing primitives
\* A text attribute is a set of bits; curses.A_NORMAL has none, and the
\* bitwise or of two attributes is their union.
A_NORMAL == {}

\* How a drawing operation ended: kind is "ok" or the exception's name; tags
\* are the close tags a ValueError of addfstr names.
Ended(kind) == [kind |-> kind, tags |-> <<>>]

\* A drawing operation and its arguments; arg is the text, or the length in
\* a sequence of its own.
Asked(op, y, x, arg) == [op |-> op, y |-> y, x |-> x, arg |-> arg]
NoCall == Asked("", 0, 0, <<>>)

\* One call on self.win, with the arguments the panel passes.
WinCall(op, y, x, n, text, attr) ==
  [op |-> op, y |-> y, x |-> x, n |-> n, text |-> text, attr |-> attr]

\* The cells of the subwindow a call writes to.
Cells(c) ==
  CASE c.op = "hline" -> {<<c.y, c.x + i>> : i \in 0..(c.n - 1)}
    [] c.op = "vline" -> {<<c.y + i, c.x>> : i \in 0..(c.n - 1)}
    [] c.op = "addch" -> {<<c.y, c.x>>}
    [] c.op = "addstr" -> {<<c.y, c.x + i>> : i \in 0..(Len(c.text) - 1)}

\* if self.win and self.maxX > x and self.maxY > y:
CanDrawAt(p, y, x) == win[p].ok /\ maxX[p] > x /\ maxY[p] > y

\* msg[:n] for n >= 0
Prefix(msg, n) == SubSeq(msg, 1, Min(n, Len(msg)))

\* (mutant) hline passes the requested length on as it is.
HlineCallsUnclipped(p, y, x, length, attr) ==
  IF CanDrawAt(p, y, x)
  THEN <<WinCall("hline", y, x, length, <<>>, attr)>>
  ELSE <<>>

\* The calls hline, vline, addch and addstr make on self.win.
HlineCalls(p, y, x, length, attr) ==
  IF CanDrawAt(p, y, x)
  THEN <<WinCall("hline", y, x, Min(length, maxX[p] - x), <<>>, attr)>>
  ELSE <<>>

VlineCalls(p, y, x, length, attr) ==
  IF CanDrawAt(p, y, x)
  THEN <<WinCall("vline", y, x, Min(length, maxY[p] - y), <<>>, attr)>>
  ELSE <<>>

AddchCalls(p, y, x, char, attr) ==
  IF CanDrawAt(p, y, x)
  THEN <<WinCall("addch", y, x, 1, <<char>>, attr)>>
  ELSE <<>>

AddstrCalls(p, y, x, msg, attr) ==
  IF CanDrawAt(p, y, x)
  THEN <<WinCall("addstr", y, x, 0, Prefix(msg, maxX[p] - x - 1), attr)>>
  ELSE <<>>

\* try: self.win.<op>(...)  except: pass
\* The call on the window may raise (fails); the bare except swallows it.
Swallowed(calls, fails) == Ended("ok")

\* The drawing operation op of panel p, called with (y, x, arg), has made the
\* calls and ended with out.
Drawn(op, y, x, arg, calls, out) ==
  /\ asked' = Asked(op, y, x, arg)
  /\ written' = calls
  /\ drawOut' = out
  /\ UNCHANGED <<geomVars, lockVars, stack, quiet, pauseVars, preferred>>

Hline(p, y, x, length, attr, fails) ==
  LET calls == HlineCalls(p, y, x, length, attr)
  IN  Drawn("hline", y, x, <<length>>, calls, Swallowed(calls, fails))

Vline(p, y, x, length, attr, fails) ==
  LET calls == VlineCalls(p, y, x, length, attr)
  IN  Drawn("vline", y, x, <<length>>, calls, Swallowed(calls, fails))

Addch(p, y, x, char, attr, fails) ==
  LET calls == AddchCalls(p, y, x, char, attr)
  IN  Drawn("addch", y, x, <<char>>, calls, Swallowed(calls, fails))

Addstr(p, y, x, msg, attr, fails) ==
  LET calls == AddstrCalls(p, y, x, msg, attr)
  IN  Drawn("addstr", y, x, msg, calls, Swallowed(calls, fails))

\* --------------------------------------------------------------- addfstr
\* A string is the sequence of its characters, and positions count from 0 as
\* in Python.
\* s.find(ch, start): the first position >= start that holds ch, or -1
Find(s, ch, start) ==
  LET hits == {i \in start..(Len(s) - 1) : s[i + 1] = ch}
  IN  IF hits = {} THEN -1 ELSE CHOOSE i \in hits : \A j \in hits : i <= j

\* s[a:b] and s[a:] for 0 <= a and 0 <= b <= len(s)
Slice(s, a, b) == SubSeq(s, a + 1, b)
SliceFrom(s, a) == SubSeq(s, a + 1, Len(s))

\* list.remove(v): the list without the first element equal to v
Remove(list, v) ==
  LET i == CHOOSE k \in 1..Len(list) :
             list[k] = v /\ \A j \in 1..(k - 1) : list[j] # v
  IN  SubSeq(list, 1, i - 1) \o SubSeq(list, i + 1, Len(list))

Range(list) == {list[i] : i \in 1..Len(list)}

\* FORMAT_TAGS: the open tags and their attributes.  <b>, <u> and <h> are
\* those of panel.py; the colors stand for uiTools.COLOR_LIST, and the
\* attribute of a color is what uiTools.getColor gives for it (a color pair,
\* bits of their own).
A_BOLD == {"bold"}
A_UNDERLINE == {"underline"}
A_STANDOUT == {"standout"}
GetColor(color) == {color}
FORMAT_TAGS ==
  (<<"<", "b", ">">> :> A_BOLD) @@
  (<<"<", "u", ">">> :> A_UNDERLINE) @@
  (<<"<", "h", ">">> :> A_STANDOUT) @@
  (<<"<", "r", "e", "d", ">">> :> GetColor("red")) @@
  (<<"<", "b", "l", "u", "e", ">">> :> GetColor("blue"))

\* "</" + nextTag[1:] and "<" + nextTag[2:]
CloseTagOf(openTag) == <<"<", "/">> \o SliceFrom(openTag, 1)
OpenTagOf(closeTag) == <<"<">> \o SliceFrom(closeTag, 2)
\* nextTag.startswith("</")
IsCloseTag(tag) == Len(tag) >= 2 /\ tag[1] = "<" /\ tag[2] = "/"

\* The inner loop, from tmpChecked on: the next "<...>" span of unusedMsg
\* that is one of expectedTags.  When a "<" has no ">" after it, find gives
\* -1 and tagEnd is 0, never -1: the span is empty, tmpChecked goes back to
\* 0 and the loop runs through the same positions for ever ("loops").
RECURSIVE FindTag(_, _, _)
FindTag(unusedMsg, expectedTags, tmpChecked) ==
  LET tagStart == Find(unusedMsg, "<", tmpChecked)
      tagEnd == IF tagStart # -1 THEN Find(unusedMsg, ">", tagStart) + 1 ELSE -1
      none == [kind |-> "none", tagStart |-> -1, tagEnd |-> -1]
  IN  IF tagStart = -1 \/ tagEnd = -1 THEN none
      ELSE IF Slice(unusedMsg, tagStart, tagEnd) \in expectedTags
      THEN [kind |-> "tag", tagStart |-> tagStart, tagEnd |-> tagEnd]
      ELSE IF tagEnd = 0 THEN [none EXCEPT !.kind = "loops"]
      ELSE FindTag(unusedMsg, expectedTags, tagEnd)

\* attr = 0; for format in formatting: attr |= format
CombinedLast(formatting) ==
  IF formatting = <<>> THEN A_NORMAL ELSE formatting[Len(formatting)]

Combined(formatting) == UNION Range(formatting)

\* self.win.addstr raises curses.error: the position is not in the window,
\* or the library fails for a reason of its own.
AddstrRaises(p, call, fails) ==
  \/ fails
  \/ call.y < 0 \/ call.x < 0
  \/ call.y >= win[p].h \/ call.x >= win[p].w

\* The outer loop of addfstr.  Gives the calls made on self.win, what is
\* left of the message and of the expected close tags, and how the loop
\* ended: "done", "loops" or "curses.error".
RECURSIVE AddfstrLoop(_, _, _, _, _, _, _, _)
AddfstrLoop(p, y, x, unusedMsg, formatting, expectedCloseTags, calls, fails) ==
  LET end(how) == [calls |-> calls, unusedMsg |-> unusedMsg,
                   expectedCloseTags |-> expectedCloseTags, how |-> how]
  IN
  IF ~(maxX[p] > x /\ Len(unusedMsg) > 0) THEN end("done")
  ELSE
    LET expectedTags == DOMAIN FORMAT_TAGS \cup Range(expectedCloseTags)
        found == FindTag(unusedMsg, expectedTags, 0)
        isTag == found.kind = "tag"
        nextTag == Slice(unusedMsg, found.tagStart, found.tagEnd)
        msgSegment == IF isTag THEN Slice(unusedMsg, 0, found.tagStart)
                      ELSE unusedMsg
        rest == IF isTag THEN SliceFrom(unusedMsg, found.tagEnd) ELSE <<>>
        call == WinCall("addstr", y, x, 0,
                        Prefix(msgSegment, maxX[p] - x - 1),
                        Combined(formatting))
        formatMatch == FORMAT_TAGS[IF IsCloseTag(nextTag)
                                   THEN OpenTagOf(nextTag) ELSE nextTag]
    IN  IF found.kind = "loops" THEN end("loops")
        ELSE IF AddstrRaises(p, call, fails)
        THEN [end("curses.error") EXCEPT !.calls = Append(calls, call)]
        ELSE AddfstrLoop(p, y, x + Len(msgSegment), rest,
               IF ~isTag THEN formatting
               ELSE IF IsCloseTag(nextTag) THEN Remove(formatting, formatMatch)
               ELSE Append(formatting, formatMatch),
               IF ~isTag THEN expectedCloseTags
               ELSE IF IsCloseTag(nextTag) THEN Remove(expectedCloseTags, nextTag)
               ELSE Append(expectedCloseTags, CloseTagOf(nextTag)),
               Append(calls, call), fails)

\* Panel.addfstr(y, x, msg): the calls made on self.win and how it ends.
AddfstrResult(p, y, x, msg, fails) ==
  IF ~(win[p].ok /\ maxY[p] > y)
  THEN [calls |-> <<>>, out |-> Ended("ok")]
  ELSE LET r == AddfstrLoop(p, y, x, msg, <<A_NORMAL>>, <<>>, <<>>, fails)
       IN  [calls |-> r.calls,
            out |-> IF r.how # "done" THEN Ended(r.how)
                    ELSE IF r.expectedCloseTags # <<>> /\ r.unusedMsg = <<>>
                    THEN [kind |-> "ValueError", tags |-> r.expectedCloseTags]
                    ELSE Ended("ok")]

Addfstr(p, y, x, msg, fails) ==
  LET r == AddfstrResult(p, y, x, msg, fails)
  IN  Drawn("addfstr", y, x, msg, r.calls, r.out)

\* ---------------------------------------------------------- addScrollBar
\* A call made on self.win directly raises curses.error when its position is
\* not in the window, or when the library fails for a reason of its own.
WinRaises(p, call, fails) ==
  \/ fails
  \/ call.y < 0 \/ call.x < 0
  \/ call.y >= win[p].h \/ call.x >= win[p].w

\* for i in range(scrollbarHeight):
\*   if i >= sliderTop and i <= sliderTop + sliderSize:
\*     self.addstr(i + drawTop, 0, " ", curses.A_STANDOUT)
RECURSIVE SliderCalls(_, _, _, _, _, _)
SliderCalls(p, i, scrollbarHeight, sliderTop, sliderSize, drawTop) ==
  IF i >= scrollbarHeight THEN <<>>
  ELSE (IF i >= sliderTop /\ i <= sliderTop + sliderSize
        THEN AddstrCalls(p, i + drawTop, 0, <<" ">>, A_STANDOUT)
        ELSE <<>>)
       \o SliderCalls(p, i + 1, scrollbarHeight, sliderTop, sliderSize, drawTop)

\* The calls of the box, made on self.win itself one after the other; the
\* first that raises ends the operation.
RECURSIVE BoxCalls(_, _, _, _)
BoxCalls(p, todo, done, fails) ==
  IF todo = <<>> THEN [calls |-> done, out |-> Ended("ok")]
  ELSE IF WinRaises(p, Head(todo), fails)
  THEN [calls |-> Append(done, Head(todo)), out |-> Ended("curses.error")]
  ELSE BoxCalls(p, Tail(todo), Append(done, Head(todo)), fails)

\* Panel.addScrollBar(top, bottom, size, drawTop, drawBottom): the calls made
\* on self.win and how it ends.  Without a handle self.win.vline raises
\* AttributeError.
AddScrollBarResult(p, top_, bottom, size, drawTop, drawBottom, fails) ==
  IF maxY[p] - drawTop < 2
  THEN [calls |-> <<>>, out |-> Ended("ok")]
  ELSE LET bottomRow == IF drawBottom = -1 THEN maxY[p] - 1
                        ELSE Min(drawBottom, maxY[p] - 1)
           scrollbarHeight == bottomRow - drawTop
           sliderSize == (scrollbarHeight * (bottom - top_)) \div size
           computed == (scrollbarHeight * top_) \div size
           raised == IF top_ > 0 THEN Max(computed, 1) ELSE computed
           lowered == IF bottom # size
                      THEN Min(raised, scrollbarHeight - sliderSize - 2)
                      ELSE raised
           sliderTop == IF bottom = size
                        THEN scrollbarHeight - sliderSize - 1
                        ELSE lowered
           slider == SliderCalls(p, 0, scrollbarHeight, sliderTop, sliderSize,
                                 drawTop)
           box == <<WinCall("vline", drawTop, 1, maxY[p] - 2, <<>>, A_NORMAL),
                    WinCall("addch", bottomRow, 1, 1, <<"+">>, A_NORMAL),
                    WinCall("addch", bottomRow, 0, 1, <<"-">>, A_NORMAL)>>
       IN  IF ~win[p].ok
           THEN [calls |-> slider, out |-> Ended("AttributeError")]
           ELSE BoxCalls(p, box, slider, fails)

AddScrollBar(p, top_, bottom, size, drawTop, drawBottom, fails) ==
  LET r == AddScrollBarResult(p, top_, bottom, size, drawTop, drawBottom, fails)
  IN  Drawn("addScrollBar", 0, 0, <<top_, bottom, size, drawTop, drawBottom>>,
            r.calls, r.out)

\* ------------------------------------------------------ specifications
Threads == {1, 2}
Panels == {1, 2}
Parents == {1, 2}
Tops == {0, 1}
Lefts == {0, 1}
Heights == {Unlimited, 1}
Widths == {Unlimited, 1}
AttrNames == {"a", "b"}
Objects == {1}
Contents == {0, 1}
Values == {IntValue(1), IntValue(2), ListValue(1)}

\* Panel(parent, name, top): not visible, left 0, no height or width limit,
\* no subwindow, maxY, maxX = -1, -1, not paused, nothing tracked, and
\* pauseTime = -1.  The panels are stacked: panel p is constructed with
\* top = p - 1.  No thread runs, the lock is free.
Init ==
  /\ term = [h |-> MaxRows, w |-> MaxCols]
  /\ visible = [p \in Panels |-> FALSE]
  /\ top = [p \in Panels |-> p - 1]
  /\ left = [p \in Panels |-> 0]
  /\ height = [p \in Panels |-> Unlimited]
  /\ width = [p \in Panels |-> Unlimited]
  /\ parent = [p \in Panels |-> 1]
  /\ win = [p \in Panels |-> NoWin]
  /\ maxY = [p \in Panels |-> -1]
  /\ maxX = [p \in Panels |-> -1]
  /\ lockOwner = 0
  /\ lockCount = 0
  /\ stack = [t \in Threads |-> <<>>]
  /\ quiet = [p \in Panels |-> FALSE]
  /\ paused = [p \in Panels |-> FALSE]
  /\ pauseAttr = [p \in Panels |-> {}]
  /\ pauseBuffer = [p \in Panels |-> [a \in AttrNames |-> Missing]]
  /\ pauseTime = [p \in Panels |-> -1]
  /\ attrs = [p \in Panels |-> [a \in AttrNames |-> NoneValue]]
  /\ cell = [c \in Objects |-> 0]
  /\ now = 0
  /\ frozen = [p \in Panels |-> [a \in AttrNames |-> Missing]]
  /\ result = "none"
  /\ asked = NoCall
  /\ written = <<>>
  /\ drawOut = Ended("none")
  /\ preferred = NoSize

\* One statement of a redraw in progress on thread t.
RedrawStep(t) ==
  \/ RedrawPreferred(t)
  \/ RedrawReset(t)
  \/ RedrawDims(t)
  \/ RedrawAcquire(t)
  \/ RedrawErase(t)
  \/ DrawReturns(t)
  \/ DrawRaises(t)
  \/ \E fails \in BOOLEAN : RedrawRefresh(t, fails)
  \/ RedrawRelease(t)
  \/ RedrawReturn(t)

\* A call of a geometry setter.
Setter(t, p) ==
  \/ \E v \in Parents : SetParent(t, p, v)
  \/ \E v \in Tops : SetTop(t, p, v)
  \/ \E v \in Lefts : SetLeft(t, p, v)
  \/ \E v \in Heights : SetHeight(t, p, v)
  \/ \E v \in Widths : SetWidth(t, p, v)
  \/ \E v \in BOOLEAN : SetVisible(t, p, v)

\* The lock protocol: two threads redraw the two panels, which are shown and
\* hidden, on a terminal of a fixed size.
Next ==
  \E t \in Threads :
    \/ RedrawStep(t)
    \/ \E p \in Panels, force \in BOOLEAN, block \in BOOLEAN : Redraw(t, p, force, block)
    \/ \E p \in Panels, v \in BOOLEAN : SetVisible(t, p, v)

Spec == Init /\ [][Next]_vars

\* Races: two threads redraw one panel while it is moved and shown, and the
\* terminal's height changes.
NextRace ==
  \E t \in Threads :
    \/ RedrawStep(t)
    \/ \E force \in BOOLEAN, block \in BOOLEAN : Redraw(t, 2, force, block)
    \/ \E v \in BOOLEAN : SetVisible(t, 2, v)
    \/ \E v \in Tops : SetTop(t, 2, v)
    \/ \E nh \in 1..MaxRows, adjust \in BOOLEAN : Resize(t, nh, term.w, adjust)

SpecRace == Init /\ [][NextRace]_vars

\* Geometry: one thread drives one panel through every setter, redraws it,
\* and the terminal is resized between the calls.
NextSeq ==
  \/ RedrawStep(1)
  \/ \E force \in BOOLEAN, block \in BOOLEAN : Redraw(1, 1, force, block)
  \/ Setter(1, 1)
  \/ \E nh \in 1..MaxRows, nw \in 1..MaxCols, adjust \in BOOLEAN : Resize(1, nh, nw, adjust)

SpecSeq == Init /\ [][NextSeq]_vars

\* Pausing: the thread that owns panel 1 tracks, changes and pauses it.
NextPause ==
  \/ RedrawStep(1)
  \/ \E v \in BOOLEAN : SetVisible(1, 1, v)
  \/ \E a \in AttrNames : SetPauseAttr(1, 1, a)
  \/ \E v \in Values : SetAttr(1, 1, "a", v)
  \/ SetAttr(1, 1, "b", IntValue(1))
  \/ \E c \in Objects, n \in Contents : MutateObject(1, c, n)
  \/ \E isPause \in BOOLEAN, suppress \in BOOLEAN : SetPaused(1, 1, isPause, suppress)
  \/ Tick

SpecPause == Init /\ [][NextPause]_vars

\* Two threads redraw panel 1 while the terminal is resized; the library
\* leaves existing subwindows as they are and nobody moves the panel.
NextResize ==
  \E t \in Threads :
    \/ RedrawStep(t)
    \/ \E force \in BOOLEAN, block \in BOOLEAN : Redraw(t, 1, force, block)
    \/ \E v \in BOOLEAN : SetVisible(t, 1, v)
    \/ \E nh \in 1..MaxRows, nw \in 1..MaxCols : Resize(t, nh, nw, FALSE)

SpecResize == Init /\ [][NextResize]_vars

\* Two threads redraw, show, hide, pause and unpause panel 1; its geometry
\* and the terminal stay as they are.
NextPauseRace ==
  \E t \in Threads :
    \/ RedrawStep(t)
    \/ /\ Idle(t)
       /\ \E force \in BOOLEAN, block \in BOOLEAN : Redraw(t, 1, force, block)
    \/ \E v \in BOOLEAN : SetVisible(t, 1, v)
    \/ /\ Idle(t)
       /\ \E isPause \in BOOLEAN, suppress \in BOOLEAN :
            SetPaused(t, 1, isPause, suppress)

SpecPauseRace == Init /\ [][NextPauseRace]_vars

\* Two threads redraw panel 1 from outside any draw callback, blocking or
\* not, while either may show, hide or move it.  The lock is fair (a thread
\* whose acquire can succeed again and again gets the lock), every thread
\* that can take a step of redraw takes it, and a draw callback ends (it
\* returns or raises).
NextLive ==
  \E t \in Threads :
    \/ RedrawStep(t)
    \/ /\ Idle(t)
       /\ \E force \in BOOLEAN, block \in BOOLEAN : Redraw(t, 1, force, block)
    \/ \E v \in BOOLEAN : SetVisible(t, 1, v)
    \/ \E v \in Tops : SetTop(t, 1, v)

Fairness ==
  \A t \in Threads : WF_vars(RedrawStep(t)) /\ SF_vars(RedrawAcquire(t))

SpecLive == Init /\ [][NextLive]_vars /\ Fairness

\* One drawing operation of panel 1, called with every combination of
\* arguments, in every state of its handle and last-observed dimensions: no
\* handle, or a handle whose size is or is not what was last observed.
Ys == -1..MaxRows
Xs == -1..MaxCols
Lengths == -1..MaxLen
Chars == {"a", "b"}
Msgs == UNION {[1..n -> Chars] : n \in 0..MaxLen}
TextAttrs == {A_NORMAL, {"bold"}}
DrawWindows ==
  {NoWin} \cup {Window(h, w, 0) : h \in 1..MaxRows, w \in 1..MaxCols}
Observed(n) == {-1} \cup 1..n

InitDraw ==
  /\ term = [h |-> MaxRows, w |-> MaxCols]
  /\ visible = [p \in Panels |-> p = 1]
  /\ top = [p \in Panels |-> p - 1]
  /\ left = [p \in Panels |-> 0]
  /\ height = [p \in Panels |-> Unlimited]
  /\ width = [p \in Panels |-> Unlimited]
  /\ parent = [p \in Panels |-> 1]
  /\ \E w \in DrawWindows : win = [p \in Panels |-> IF p = 1 THEN w ELSE NoWin]
  /\ \E n \in Observed(MaxRows) : maxY = [p \in Panels |-> IF p = 1 THEN n ELSE -1]
  /\ \E n \in Observed(MaxCols) : maxX = [p \in Panels |-> IF p = 1 THEN n ELSE -1]
  /\ lockOwner = 0
  /\ lockCount = 0
  /\ stack = [t \in Threads |-> <<>>]
  /\ quiet = [p \in Panels |-> FALSE]
  /\ paused = [p \in Panels |-> FALSE]
  /\ pauseAttr = [p \in Panels |-> {}]
  /\ pauseBuffer = [p \in Panels |-> [a \in AttrNames |-> Missing]]
  /\ pauseTime = [p \in Panels |-> -1]
  /\ attrs = [p \in Panels |-> [a \in AttrNames |-> NoneValue]]
  /\ cell = [c \in Objects |-> 0]
  /\ now = 0
  /\ frozen = [p \in Panels |-> [a \in AttrNames |-> Missing]]
  /\ result = "none"
  /\ asked = NoCall
  /\ written = <<>>
  /\ drawOut = Ended("none")
  /\ preferred = NoSize

NextDraw ==
  \E y \in Ys, x \in Xs, attr \in TextAttrs, fails \in BOOLEAN :
    /\ drawOut = Ended("none")
    /\ \/ \E length \in Lengths : Hline(1, y, x, length, attr, fails)
       \/ \E length \in Lengths : Vline(1, y, x, length, attr, fails)
       \/ \E char \in Chars : Addch(1, y, x, char, attr, fails)
       \/ \E msg \in Msgs : Addstr(1, y, x, msg, attr, fails)

SpecDraw == InitDraw /\ [][NextDraw]_vars

\* One call of addfstr on panel 1.  Its handle is one row high and as wide as
\* the longest message; the width last observed is that or a few columns.
\* The messages are made of up to MaxPieces pieces: color tags, a letter,
\* and stray angle brackets; they are drawn from (0, 0).  A short plain and a
\* short marked-up message are also drawn from everywhere, with and without
\* the library failing.
Pieces ==
  {<<"<", "r", "e", "d", ">">>, <<"<", "/", "r", "e", "d", ">">>,
   <<"<", "b", "l", "u", "e", ">">>, <<"<", "/", "b", "l", "u", "e", ">">>,
   <<"x">>, <<"<">>, <<">">>}

RECURSIVE Flatten(_)
Flatten(pieces) ==
  IF pieces = <<>> THEN <<>> ELSE Head(pieces) \o Flatten(Tail(pieces))

Markups == {Flatten(ps) : ps \in UNION {[1..n -> Pieces] : n \in 0..MaxPieces}}
FewMarkups ==
  {<<"x", "x">>, <<"<", "r", "e", "d", ">", "x", "<", "/", "r", "e", "d", ">">>}
Wide == 6 * MaxPieces + 1

InitMarkup ==
  /\ term = [h |-> MaxRows, w |-> Wide]
  /\ visible = [p \in Panels |-> p = 1]
  /\ top = [p \in Panels |-> p - 1]
  /\ left = [p \in Panels |-> 0]
  /\ height = [p \in Panels |-> Unlimited]
  /\ width = [p \in Panels |-> Unlimited]
  /\ parent = [p \in Panels |-> 1]
  /\ \E w \in {NoWin, Window(1, Wide, 0)}, n \in 1..(MaxCols + 1) \cup {Wide} :
       /\ w = NoWin => n = Wide
       /\ win = [p \in Panels |-> IF p = 1 THEN w ELSE NoWin]
       /\ maxX = [p \in Panels |-> IF p = 1 THEN n ELSE -1]
  /\ maxY = [p \in Panels |-> IF p = 1 THEN 1 ELSE -1]
  /\ lockOwner = 0
  /\ lockCount = 0
  /\ stack = [t \in Threads |-> <<>>]
  /\ quiet = [p \in Panels |-> FALSE]
  /\ paused = [p \in Panels |-> FALSE]
  /\ pauseAttr = [p \in Panels |-> {}]
  /\ pauseBuffer = [p \in Panels |-> [a \in AttrNames |-> Missing]]
  /\ pauseTime = [p \in Panels |-> -1]
  /\ attrs = [p \in Panels |-> [a \in AttrNames |-> NoneValue]]
  /\ cell = [c \in Objects |-> 0]
  /\ now = 0
  /\ frozen = [p \in Panels |-> [a \in AttrNames |-> Missing]]
  /\ result = "none"
  /\ asked = NoCall
  /\ written = <<>>
  /\ drawOut = Ended("none")
  /\ preferred = NoSize

NextMarkup ==
  /\ drawOut = Ended("none")
  /\ \/ \E msg \in Markups : Addfstr(1, 0, 0, msg, FALSE)
     \/ \E y \in Ys, x \in Xs, msg \in FewMarkups, fails \in BOOLEAN :
          Addfstr(1, y, x, msg, fails)

SpecMarkup == InitMarkup /\ [][NextMarkup]_vars

\* One call of getPreferredSize on panel 1, after any number of resizes of
\* the terminal and setter calls.  The panel starts anywhere, also below and
\* right of the terminal's last row and column; its height and width are the
\* sentinel or positive.
InitPref ==
  /\ \E h \in 1..MaxRows, w \in 1..MaxCols : term = [h |-> h, w |-> w]
  /\ visible = [p \in Panels |-> FALSE]
  /\ \E v \in 0..(MaxRows + 1) : top = [p \in Panels |-> v]
  /\ \E v \in 0..(MaxCols + 1) : left = [p \in Panels |-> v]
  /\ \E v \in {Unlimited} \cup 1..(MaxRows + 1) : height = [p \in Panels |-> v]
  /\ \E v \in {Unlimited} \cup 1..(MaxCols + 1) : width = [p \in Panels |-> v]
  /\ parent = [p \in Panels |-> 1]
  /\ win = [p \in Panels |-> NoWin]
  /\ maxY = [p \in Panels |-> -1]
  /\ maxX = [p \in Panels |-> -1]
  /\ lockOwner = 0
  /\ lockCount = 0
  /\ stack = [t \in Threads |-> <<>>]
  /\ quiet = [p \in Panels |-> FALSE]
  /\ paused = [p \in Panels |-> FALSE]
  /\ pauseAttr = [p \in Panels |-> {}]
  /\ pauseBuffer = [p \in Panels |-> [a \in AttrNames |-> Missing]]
  /\ pauseTime = [p \in Panels |-> -1]
  /\ attrs = [p \in Panels |-> [a \in AttrNames |-> NoneValue]]
  /\ cell = [c \in Objects |-> 0]
  /\ now = 0
  /\ frozen = [p \in Panels |-> [a \in AttrNames |-> Missing]]
  /\ result = "none"
  /\ asked = NoCall
  /\ written = <<>>
  /\ drawOut = Ended("none")
  /\ preferred = NoSize

NextPref ==
  /\ preferred = NoSize
  /\ \/ GetPreferredSize(1, 1)
     \/ \E nh \in 1..MaxRows, nw \in 1..MaxCols : Resize(1, nh, nw, FALSE)
     \/ \E v \in Tops : SetTop(1, 1, v)
     \/ \E v \in Lefts : SetLeft(1, 1, v)
     \/ \E v \in Heights : SetHeight(1, 1, v)
     \/ \E v \in Widths : SetWidth(1, 1, v)

SpecPref == InitPref /\ [][NextPref]_vars

\* One call of addScrollBar on panel 1, whose handle is absent or of any size
\* and whose last-observed size is any: a list of up to MaxSize elements, a
\* viewport 0 <= top < bottom <= size, from the first or the second row down
\* to any row or to the bottom of the panel.
InitScroll ==
  /\ term = [h |-> MaxTrack, w |-> MaxCols]
  /\ visible = [p \in Panels |-> p = 1]
  /\ top = [p \in Panels |-> p - 1]
  /\ left = [p \in Panels |-> 0]
  /\ height = [p \in Panels |-> Unlimited]
  /\ width = [p \in Panels |-> Unlimited]
  /\ parent = [p \in Panels |-> 1]
  /\ \E w \in {NoWin} \cup {Window(h, c, 0) : h \in 1..MaxTrack, c \in 1..MaxCols} :
       win = [p \in Panels |-> IF p = 1 THEN w ELSE NoWin]
  /\ \E n \in 1..MaxTrack : maxY = [p \in Panels |-> IF p = 1 THEN n ELSE -1]
  /\ \E n \in 1..MaxCols : maxX = [p \in Panels |-> IF p = 1 THEN n ELSE -1]
  /\ lockOwner = 0
  /\ lockCount = 0
  /\ stack = [t \in Threads |-> <<>>]
  /\ quiet = [p \in Panels |-> FALSE]
  /\ paused = [p \in Panels |-> FALSE]
  /\ pauseAttr = [p \in Panels |-> {}]
  /\ pauseBuffer = [p \in Panels |-> [a \in AttrNames |-> Missing]]
  /\ pauseTime = [p \in Panels |-> -1]
  /\ attrs = [p \in Panels |-> [a \in AttrNames |-> NoneValue]]
  /\ cell = [c \in Objects |-> 0]
  /\ now = 0
  /\ frozen = [p \in Panels |-> [a \in AttrNames |-> Missing]]
  /\ result = "none"
  /\ asked = NoCall
  /\ written = <<>>
  /\ drawOut = Ended("none")
  /\ preferred = NoSize

NextScroll ==
  /\ drawOut = Ended("none")
  /\ \E size \in 1..MaxSize :
       \E top_ \in 0..(size - 1) :
         \E bottom \in (top_ + 1)..size :
           \E drawTop \in {0, 1}, drawBottom \in {-1} \cup 1..MaxTrack,
              fails \in BOOLEAN :
             AddScrollBar(1, top_, bottom, size, drawTop, drawBottom, fails)

SpecScroll == InitScroll /\ [][NextScroll]_vars

\* ------------------------------------------------------------- claims
\* The frames of thread t.
Frames(t) == {stack[t][i] : i \in 1..Len(stack[t])}

\* Thread t is between acquiring the lock in redraw and releasing it: one of
\* its redraw calls is at erase, in the draw callback, at refresh or at the
\* release.
InSection(t) ==
  \E f \in Frames(t) : f.pc \in {"erase", "indraw", "refresh", "release"}

\* C1: redraws are serialized.  At most one thread at a time is inside the
\* erase / draw callback / refresh section of redraw, whatever panels the
\* threads redraw; one thread may be inside it several times over.
C1_Serialized ==
  \A t1 \in Threads, t2 \in Threads :
    t1 # t2 => ~(InSection(t1) /\ InSection(t2))

\* C1's case: a thread is inside the section twice over (a redraw of panel 2
\* called from the draw callback of panel 1) while the other thread waits
\* for the lock.
C1_Witness ==
  \E t1 \in Threads, t2 \in Threads :
    /\ t1 # t2
    /\ Len(stack[t1]) = 2
    /\ stack[t1][1].p # stack[t1][2].p
    /\ stack[t1][2].pc = "refresh"
    /\ lockCount = 2
    /\ At(t2, "acquire")
    /\ Top(t2).block

\* C2: a redraw call that acquired the lock has released it exactly once when
\* it returns or raises: the thread's hold on the lock is what it was when
\* the call began.  (A call that never acquired it leaves the hold alone.)
C2_ReleasedOnEveryPath ==
  \A t \in Threads :
    At(t, "ret") => Held(t) = Top(t).held0

\* C2's case: a redraw called from inside a draw callback (hold 1 at the
\* call) acquired the lock, an exception was raised under it, and the call is
\* about to hand the exception to its caller.
C2_Witness ==
  \E t \in Threads :
    /\ At(t, "ret")
    /\ Top(t).locked
    /\ Top(t).out = "raised"
    /\ Top(t).held0 = 1

\* C3: a non-blocking redraw that finds the lock owned by another thread is
\* dropped.  It does not wait (its next step can be taken at once), and that
\* step ends the call without an exception, without the lock, without erase,
\* draw or refresh, leaves the lock, the panels and the other frames of the
\* thread as they are, and leaves nothing behind to run later.
C3_MustDrop(t) == At(t, "acquire") /\ ~Top(t).block /\ ~CanAcquire(t)

C3_NonBlockingDropped ==
  /\ [](\A t \in Threads : C3_MustDrop(t) => ENABLED RedrawAcquire(t))
  /\ [][\A t \in Threads :
          (C3_MustDrop(t) /\ stack'[t] # stack[t]) =>
            /\ Len(stack'[t]) = Len(stack[t])
            /\ SubSeq(stack'[t], 1, Len(stack[t]) - 1)
                 = SubSeq(stack[t], 1, Len(stack[t]) - 1)
            /\ At(t, "ret")'
            /\ Top(t)'.out = "dropped"
            /\ ~Top(t)'.locked
            /\ UNCHANGED <<lockVars, geomVars>>]_vars

\* C3's case: a non-blocking redraw has just been dropped while the other
\* thread is inside the section.
C3_Witness ==
  \E t \in Threads, u \in Threads :
    /\ At(t, "ret")
    /\ Top(t).out = "dropped"
    /\ ~Top(t).block
    /\ u # t
    /\ lockOwner = u
    /\ InSection(u)

C5_ChangeForcesDraw ==
  [][\A t \in Threads :
       (~Idle(t) /\ stack'[t] # stack[t]
          /\ (Top(t).isNewWindow \/ Top(t).changed) /\ ~Top(t).force0) =>
         /\ (Top(t).pc = "acquire" /\ Top(t)'.locked => Top(t)'.pc = "erase")
         /\ (Top(t).pc = "erase" => Top(t)'.pc = "indraw")]_vars

\* C6 (as stated): a redraw of a visible panel called when the available
\* space is below the last-observed size of its subregion, with nonzero
\* height, recreates the subregion (if the space is still below at the
\* recreation step) and, having recreated it, goes on to erase and draw.
C6_ResizeInvariant ==
  [][\A t \in Threads :
       (~Idle(t) /\ stack'[t] # stack[t] /\ Top(t).shrunk0) =>
         /\ (Top(t).pc = "reset" /\ Shrunk(Top(t).p) => Top(t)'.isNewWindow)
         /\ (Top(t).pc = "acquire" /\ Top(t).isNewWindow
               => Top(t)'.pc = "erase")
         /\ (Top(t).pc = "erase" /\ Top(t).isNewWindow
               => Top(t)'.pc = "indraw")]_vars

\* C7: idempotence of redraw.  While nothing has changed (no setter call, no
\* change of visibility or pause state, no resize) since a redraw of the
\* panel returned, a redraw called with forceRedraw = False has no redraw
\* pending when it comes to the lock and never comes to the erase or the draw
\* callback: it only refreshes.
C7_Idempotent ==
  \A t \in Threads : \A f \in Frames(t) :
    (quiet[f.p] /\ ~f.force0 /\ f.pc \in {"acquire", "erase"}) =>
      (~f.forceRedraw /\ f.pc = "acquire")

\* C7's case: the second redraw(False) in a row on a panel with a handle has
\* come to the lock with nothing to redraw.
C7_Witness ==
  /\ At(1, "acquire")
  /\ Len(stack[1]) = 1
  /\ quiet[Top(1).p]
  /\ ~Top(1).force0
  /\ ~Top(1).forceRedraw
  /\ win[Top(1).p].ok

\* C8: each of setTop, setLeft, setHeight, setWidth and setParent, called
\* with a value that differs from the stored one, stores it and leaves the
\* handle absent; called with the stored value it changes nothing (an
\* existing handle is kept).
C8_SetterLaw ==
  \A t \in Threads, p \in Panels :
    /\ \A v \in Tops : ~ENABLED
         (SetTop(t, p, v) /\
            ~(IF v # top[p] THEN top'[p] = v /\ ~win'[p].ok ELSE UNCHANGED vars))
    /\ \A v \in Lefts : ~ENABLED
         (SetLeft(t, p, v) /\
            ~(IF v # left[p] THEN left'[p] = v /\ ~win'[p].ok ELSE UNCHANGED vars))
    /\ \A v \in Heights : ~ENABLED
         (SetHeight(t, p, v) /\
            ~(IF v # height[p] THEN height'[p] = v /\ ~win'[p].ok
              ELSE UNCHANGED vars))
    /\ \A v \in Widths : ~ENABLED
         (SetWidth(t, p, v) /\
            ~(IF v # width[p] THEN width'[p] = v /\ ~win'[p].ok
              ELSE UNCHANGED vars))
    /\ \A v \in Parents : ~ENABLED
         (SetParent(t, p, v) /\
            ~(IF v # parent[p] THEN parent'[p] = v /\ ~win'[p].ok
              ELSE UNCHANGED vars))

\* C8's case: setters have stored new values (top 1, height 1), a redraw has
\* made a handle since, and a setter can be called: with the stored value
\* and with another one.
C8_Witness ==
  /\ Idle(1)
  /\ win[1].ok
  /\ top[1] = 1
  /\ height[1] = 1
  /\ \A v \in Tops : ENABLED SetTop(1, 1, v)

\* C9: redraw does nothing to the terminal when the panel is not visible or
\* its preferred height is 0.  A call on a panel that is not visible leaves
\* the thread's frames, the lock, the handle and maxY, maxX as they are.  A
\* call on a visible panel that finds preferred height 0 at line 374 goes
\* from there straight to its return, without an exception, leaving the
\* handle absent and the lock and maxY, maxX as they are.
C9_NoOp ==
  \A t \in Threads :
    /\ \A p \in Panels, force \in BOOLEAN, block \in BOOLEAN :
         ~visible[p] => ~ENABLED
           (Redraw(t, p, force, block) /\
              ~UNCHANGED <<stack, lockVars, geomVars>>)
    /\ (At(t, "pref") /\ PrefHeight(Top(t).p) = 0) =>
         /\ ENABLED RedrawPreferred(t)
         /\ ~ENABLED
              (RedrawPreferred(t) /\
                 ~(/\ At(t, "ret")'
                   /\ Top(t)'.out = "zero"
                   /\ ~Top(t)'.locked
                   /\ ~win'[Top(t).p].ok
                   /\ UNCHANGED <<lockVars, maxY, maxX, term>>))

\* C9's case: a redraw of a visible panel that had a handle found preferred
\* height 0 and is about to return; the handle is gone.
C9_Witness ==
  \E t \in Threads :
    /\ At(t, "ret")
    /\ Top(t).out = "zero"
    /\ visible[Top(t).p]
    /\ maxY[Top(t).p] > 0
    /\ ~win[Top(t).p].ok
    /\ PrefHeight(Top(t).p) = 0

\* C10 (as stated): the pause snapshot law.  While a panel is paused, getAttr
\* of an attribute that was tracked when the pause began gives what the
\* attribute looked like at that moment, whatever has been done to the
\* attribute since; while it is not paused, getAttr gives the live value.
C10_SnapshotLaw ==
  \A p \in Panels : \A a \in pauseAttr[p] :
    IF paused[p]
    THEN frozen[p][a] # Missing => Seen(GetAttr(p, a)) = frozen[p][a]
    ELSE GetAttr(p, a) = attrs[p][a]

C12_PauseRedraws ==
  /\ [](\A t \in Threads, p \in Panels, isPause \in BOOLEAN :
          /\ ~ENABLED (SetPaused(t, p, isPause, TRUE) /\ stack' # stack)
          /\ (isPause # paused[p] /\ visible[p]) =>
               ~ENABLED
                 (SetPaused(t, p, isPause, FALSE) /\
                    ~(/\ Len(stack'[t]) = Len(stack[t]) + 1
                      /\ Top(t)'.p = p
                      /\ Top(t)'.forceRedraw)))
  /\ [][\A t \in Threads :
          (~Idle(t) /\ Top(t).forPause /\ stack'[t] # stack[t]
             /\ Top(t).pc \in {"pref", "reset", "dims", "acquire", "erase"}) =>
            /\ Top(t).pc = "pref" =>
                 (PrefHeight(Top(t).p) > 0 => Top(t)'.pc = "reset")
            /\ Top(t).pc = "reset" => Top(t)'.pc = "dims"
            /\ Top(t).pc = "dims" => Top(t)'.pc = "acquire"
            /\ Top(t).pc = "acquire" => Top(t)'.pc = "erase"
            /\ Top(t).pc = "erase" => Top(t)'.pc = "indraw"]_vars

\* Every cell of call c lies below the last-observed bounds of panel p.
WithinObserved(p, c) ==
  \A yx \in Cells(c) : yx[1] < maxY[p] /\ yx[2] < maxX[p]

\* C13: hline, vline, addch and addstr make no call on the handle when it is
\* absent or when y >= maxY or x >= maxX; otherwise they make one call, at
\* (y, x), with the length or text cut so that no cell written lies at or
\* beyond maxY, maxX (and left as asked when it fits: a text when it ends
\* before the last column); an error from the call is swallowed, so each
\* operation ends normally.
C13_BoundedWrites ==
  LET y == asked.y
      x == asked.x
      off == ~win[1].ok \/ y >= maxY[1] \/ x >= maxX[1]
      c == written[1]
  IN  asked.op \in {"hline", "vline", "addch", "addstr"} =>
        /\ drawOut = Ended("ok")
        /\ off => written = <<>>
        /\ ~off =>
             /\ Len(written) = 1
             /\ c.op = asked.op /\ c.y = y /\ c.x = x
             /\ WithinObserved(1, c)
             /\ (asked.op = "hline" /\ x + asked.arg[1] <= maxX[1])
                  => c.n = asked.arg[1]
             /\ (asked.op = "vline" /\ y + asked.arg[1] <= maxY[1])
                  => c.n = asked.arg[1]
             /\ asked.op = "addch" => c.text = asked.arg
             /\ asked.op = "addstr" =>
                  /\ \E k \in 0..Len(asked.arg) : c.text = SubSeq(asked.arg, 1, k)
                  /\ (x + Len(asked.arg) < maxX[1] => c.text = asked.arg)

\* C13's case: the handle is wider than what was last observed, and an hline
\* that began inside the bounds and was asked to go beyond them was cut to
\* end at maxX.
C13_Witness ==
  /\ win[1].ok
  /\ win[1].w > maxX[1]
  /\ Len(written) = 1
  /\ written[1].op = "hline"
  /\ written[1].x >= 0
  /\ written[1].n > 0
  /\ written[1].x + written[1].n = maxX[1]
  /\ asked.arg[1] > written[1].n
  /\ drawOut = Ended("ok")

\* What a message asks for, read as its documentation reads it: a tag runs
\* from "<" to the next ">", an opening tag of the table opens, the closing
\* tag of the tag opened last closes it, and anything else is text.  An open
\* tag is kept with the column of the text it sits at.
RECURSIVE Tokens(_)
Tokens(s) ==
  IF s = <<>> THEN <<>>
  ELSE LET e == IF s[1] = "<" THEN Find(s, ">", 0) ELSE 0
           n == IF e = -1 THEN 1 ELSE e + 1
       IN  <<Slice(s, 0, n)>> \o Tokens(SliceFrom(s, n))

RECURSIVE RefScan(_, _, _, _)
RefScan(tokens, open, text, at) ==
  IF tokens = <<>> THEN [open |-> open, text |-> text, attrs |-> at]
  ELSE LET tok == Head(tokens)
       IN  IF tok \in DOMAIN FORMAT_TAGS
           THEN RefScan(Tail(tokens),
                        Append(open, [tag |-> tok, col |-> Len(text)]),
                        text, at)
           ELSE IF open # <<>> /\ tok = CloseTagOf(open[Len(open)].tag)
           THEN RefScan(Tail(tokens), SubSeq(open, 1, Len(open) - 1), text, at)
           ELSE RefScan(Tail(tokens), open, text \o tok,
                        at \o [i \in 1..Len(tok) |->
                                 UNION {FORMAT_TAGS[open[j].tag] : j \in 1..Len(open)}])

Reading(msg) == RefScan(Tokens(msg), <<>>, <<>>, <<>>)

ValidlyNested(ref) ==
  /\ ref.open = <<>>
  /\ \A i \in 1..Len(ref.text) : ref.text[i] \notin {"<", ">"}

\* C14: for a validly nested message, every character addfstr writes is the
\* character of the text at that place, written with the union (bitwise OR)
\* of the attributes of the tags open there, the normal attribute outside
\* every tag; and when the call returns, every character of the text left of
\* the last drawable column has been written.
C14_AttributeLaw ==
  LET ref == Reading(asked.arg)
  IN  (asked.op = "addfstr" /\ ValidlyNested(ref)) =>
        /\ \A k \in 1..Len(written) :
             \A i \in 1..Len(written[k].text) :
               LET at == written[k].x - asked.x + i
               IN  /\ at \in 1..Len(ref.text)
                   /\ written[k].text[i] = ref.text[at]
                   /\ written[k].attr = ref.attrs[at]
        /\ (win[1].ok /\ asked.y < maxY[1] /\ drawOut = Ended("ok")) =>
             \A at \in 1..Len(ref.text) :
               asked.x + at < maxX[1] =>
                 \E k \in 1..Len(written) :
                   at - 1 \in {written[k].x - asked.x + i :
                                 i \in 0..(Len(written[k].text) - 1)}

C14_Witness ==
  /\ asked.op = "addfstr"
  /\ asked.arg = Flatten(<<<<"<", "r", "e", "d", ">">>,
                           <<"<", "b", "l", "u", "e", ">">>, <<"x">>,
                           <<"<", "/", "b", "l", "u", "e", ">">>,
                           <<"<", "/", "r", "e", "d", ">">>>>)
  /\ drawOut = Ended("ok")
  /\ \E k \in 1..Len(written) :
       /\ written[k].text = <<"x">>
       /\ written[k].attr = GetColor("red") \cup GetColor("blue")

\* The close tags of the tags a message leaves open, in the order opened.
Unclosed(ref) == [i \in 1..Len(ref.open) |-> CloseTagOf(ref.open[i].tag)]

\* C15: a message that leaves a tag open and is no longer than the drawable
\* width, drawn from column 0 of a row of a present handle, ends in
\* ValueError naming the close tags of the open tags in the order opened.
C15_UnclosedFails ==
  LET ref == Reading(asked.arg)
  IN  (/\ asked.op = "addfstr"
       /\ win[1].ok
       /\ asked.y \in 0..(maxY[1] - 1)
       /\ asked.x = 0
       /\ ref.open # <<>>
       /\ Len(asked.arg) <= maxX[1]) =>
        drawOut = [kind |-> "ValueError", tags |-> Unclosed(ref)]

\* An unclosed tag of the message sits at or beyond the drawable width of a
\* call from (y, x) on a present handle.
BeyondWidth(tag) == asked.x + tag.col >= maxX[1]

OnHandle ==
  /\ asked.op = "addfstr"
  /\ win[1].ok
  /\ asked.y \in 0..(maxY[1] - 1)
  /\ asked.x >= 0

\* C16: a message with an unclosed tag at or beyond the drawable width,
\* drawn on a present handle from a row and a column of it, returns normally.
C16_BeyondWidth ==
  LET ref == Reading(asked.arg)
  IN  (OnHandle /\ \E i \in 1..Len(ref.open) : BeyondWidth(ref.open[i])) =>
        drawOut = Ended("ok")

\* What is left of the parent below and right of the panel's offset, and
\* one dimension of the size getPreferredSize gives: the space left, or the
\* configured maximum when there is one and it is smaller.
Available(size, offset) == IF size - offset > 0 THEN size - offset ELSE 0

Clamped(got, space, limit) ==
  /\ got >= 0
  /\ got <= space
  /\ limit # Unlimited => got <= limit
  /\ got = space \/ (limit # Unlimited /\ got = limit)

\* C17: getPreferredSize returns the parent's size at the time of the call
\* less the panel's top and left, floored at zero, clamped to the configured
\* height and width unless they are -1: never negative, never above the
\* configured maximum, never above the space the parent has left.
C17_PreferredSize ==
  preferred # NoSize =>
    /\ Clamped(preferred[1], Available(term.h, top[1]), height[1])
    /\ Clamped(preferred[2], Available(term.w, left[1]), width[1])

C17_Witness ==
  /\ top[1] > term.h
  /\ preferred[1] = 0
  /\ width[1] # Unlimited
  /\ width[1] < term.w - left[1]
  /\ preferred[2] = width[1]

\* What the recreation step of a redraw of thread t has to do: with one of
\* the three reasons it leaves a brand-new subwindow of the preferred size at
\* the panel's top; it reports True exactly when the handle is a new one,
\* and the handle is the old one otherwise.
HasReason(p) ==
  \/ ~win[p].ok
  \/ win[p].h < PrefHeight(p)
  \/ win[p].h > PrefHeight(p)
  \/ win[p].w > PrefWidth(p)

ResetLaw(t) ==
  LET p == Top(t).p
      after == stack'[t][Len(stack'[t])]
  IN  PrefHeight(p) # 0 =>
        /\ HasReason(p) =>
             /\ win'[p] = Window(PrefHeight(p), PrefWidth(p), top[p])
             /\ after.isNewWindow
        /\ after.isNewWindow <=> win'[p] # win[p]

\* C18: with a preferred height that is not zero, the recreation step of
\* redraw replaces the handle by a new subwindow of the preferred size at
\* (top, left) whenever the handle is absent, lower than the preferred
\* height, or higher or wider than the preferred size; it reports True
\* exactly when it made a new subwindow and keeps the handle otherwise.
C18_RecreationStep ==
  \A t \in Threads : ~ENABLED (RedrawReset(t) /\ ~ResetLaw(t))

\* The handle of the panel thread t redraws is not at the row the panel is
\* configured to start at.
Displaced(p) == win[p].ok /\ win[p].y # top[p]

\* C19: a redraw that reaches its recreation step with a nonzero preferred
\* height and a handle whose row in the parent is not the configured top,
\* above it or below it, leaves a new subwindow at the configured top.
C19_DisplacementCorrected ==
  \A t \in Threads :
    ~ENABLED (/\ RedrawReset(t)
              /\ PrefHeight(Top(t).p) # 0
              /\ Displaced(Top(t).p)
              /\ ~(/\ win'[Top(t).p].ok
                   /\ win'[Top(t).p].y = top[Top(t).p]
                   /\ stack'[t][Len(stack'[t])].isNewWindow))

\* C20: whatever a redraw does to a subwindow it does holding the lock: a
\* thread that is at the erase, in the draw callback or at the refresh of a
\* redraw holds the lock, and so does a thread whose redraw makes a new
\* subwindow in its recreation step.
C20_SubregionUnderLock ==
  \A t \in Threads :
    /\ InSection(t) => Held(t) > 0
    /\ ~ENABLED (RedrawReset(t) /\ win' # win /\ Held(t) = 0)

\* C21: a drawing operation makes no call on the handle when the handle is
\* absent, every call it makes writes only cells below the last-observed
\* bounds, and no error of a call on the handle leaves the operation.
C21_WrappedDrawing ==
  asked.op # "" =>
    /\ ~win[1].ok => written = <<>>
    /\ \A k \in 1..Len(written) : WithinObserved(1, written[k])
    /\ drawOut.kind # "curses.error"

\* The characters a sequence of calls on the handle writes, each with the
\* attribute it is written with, in the order written.
RECURSIVE Shown(_)
Shown(calls) ==
  IF calls = <<>> THEN <<>>
  ELSE [i \in 1..Len(Head(calls).text) |->
          [ch |-> Head(calls).text[i], attr |-> Head(calls).attr]]
       \o Shown(Tail(calls))

\* C22: close tags are matched last opened, first closed.  A message drawn in
\* full, by a call that ends, shows exactly the text of its LIFO reading: a
\* close tag is markup only when it closes the tag opened last, every other
\* span that is not an opening tag of the table is shown as text, with the
\* attributes of the tags open under that reading.
C22_LifoMatching ==
  LET ref == Reading(asked.arg)
  IN  (/\ OnHandle
       /\ asked.x = 0
       /\ maxX[1] = Wide
       /\ drawOut.kind \in {"ok", "ValueError"}) =>
        Shown(written) =
          [i \in 1..Len(ref.text) |-> [ch |-> ref.text[i], attr |-> ref.attrs[i]]]

\* The arguments of the addScrollBar call made, the track of its slider (the
\* rows from drawTop down to the row above the one the bar ends on) and the
\* rows of the track it highlights.
TrackTop == asked.arg[4]
TrackEnd ==
  LET drawBottom == asked.arg[5]
  IN  (IF drawBottom = -1 THEN maxY[1] - 1 ELSE Min(drawBottom, maxY[1] - 1)) - 1
Highlighted ==
  {written[k].y : k \in {j \in 1..Len(written) :
                           /\ written[j].op = "addstr"
                           /\ written[j].text # <<>>}}

\* C23: on a handle of the size last observed, at least two columns wide,
\* with a track of at least two rows, addScrollBar highlights the top row of
\* the track when topIndex is 0, the last row of the track when bottomIndex
\* is totalSize, and neither of the two when the viewport is at neither end.
C23_ScrollBoundary ==
  LET topIndex == asked.arg[1]
      bottomIndex == asked.arg[2]
      totalSize == asked.arg[3]
  IN  (/\ asked.op = "addScrollBar"
       /\ win[1] = Window(maxY[1], maxX[1], 0)
       /\ maxX[1] >= 2
       /\ TrackTop >= 0
       /\ TrackEnd - TrackTop >= 1) =>
        /\ topIndex = 0 => TrackTop \in Highlighted
        /\ bottomIndex = totalSize => TrackEnd \in Highlighted
        /\ (topIndex > 0 /\ bottomIndex < totalSize) =>
             /\ TrackTop \notin Highlighted
             /\ TrackEnd \notin Highlighted

\* C24: redraw never dereferences an absent handle.  A thread whose redraw is
\* about to read the handle's size, to erase it or to refresh it finds the
\* handle present, whatever the other threads have done to the panel and the
\* terminal in the meantime.
C24_HandlePresent ==
  \A t \in Threads :
    (At(t, "dims") \/ At(t, "erase") \/ At(t, "refresh")) => win[Top(t).p].ok

====
